---- MODULE Spec2Model ----
(***************************************************************************)
(* Model of the subprocess execution core of the Helmfile MCP server:      *)
(* execute_helmfile (src/server.py), one invocation, together with the     *)
(* operating-system process it spawns and the event loop that reaps it.    *)
(* Every suspension point of the coroutine (await) ends one action.        *)
(***************************************************************************)
EXTENDS Integers, Sequences, FiniteSets, TLC

\* ------------------------------------------------------------------ bounds
\* longest captured stdout / stderr, in bytes
MaxLen == 2

\* ------------------------------------------------------- program constants
\* actual_timeout = actual_timeout or 300
DefaultTimeout == 300
\* asyncio.wait_for(process.wait(), timeout=5)
GracePeriod == 5

\* --------------------------------------------------------------- the inputs
\* timeout argument: None, the unresolved pydantic Field(default=None)
\* wrapper, or an integer
Timeouts ==
  { [tag |-> "None"], [tag |-> "FieldInfo"],
    [tag |-> "int", val |-> 0], [tag |-> "int", val |-> 1] }

\* command lines, as sequences of lexical pieces; "helmfile" stands for the
\* eight characters of the word
Commands ==
  { <<"version">>, <<"helmfile", " ", "list">>, <<"list", "|", "grep">>,
    <<" ", "helmfile", " ", "list">> }

\* ctx argument: None, a context whose info() succeeds, one whose info() raises
Contexts == { "None", "ok", "failing" }

\* the object create_subprocess_shell returns: asyncio.subprocess.Process,
\* whose terminate() and kill() are plain methods returning None, or a
\* process object whose terminate() and kill() return awaitables (the
\* AsyncMock of tests/test_server.py)
ProcKinds == { "asyncio", "awaitable" }

\* bytes a process may write: space, "a", and the two bytes of UTF-8 "e-acute"
Bytes == { 32, 97, 195, 169 }

\* exit statuses of a process that exits by itself
ExitCodes == { 0, 1 }

\* what create_subprocess_shell may raise
SpawnErrors == { "PermissionError", "FileNotFoundError" }

\* ------------------------------------------------------------ pure helpers
RECURSIVE SeqsUpTo(_, _)
SeqsUpTo(S, n) ==
  IF n = 0 THEN { <<>> }
  ELSE LET shorter == SeqsUpTo(S, n - 1)
       IN  shorter \cup { Append(s, x) : s \in { t \in shorter : Len(t) = n - 1 }, x \in S }

ByteStrings == SeqsUpTo(Bytes, MaxLen)

\* characters str.strip() removes
Whitespace == { " " }

\* bytes.decode(): UTF-8 restricted to the model's bytes.  A byte below 128
\* is one character; 195 169 is one two-byte character; a lone 195 or 169
\* is invalid and raises UnicodeDecodeError.
AsciiChar(b) == IF b = 32 THEN " " ELSE "a"

RECURSIVE decode(_)
decode(bs) ==
  IF bs = <<>> THEN [ok |-> TRUE, text |-> <<>>]
  ELSE IF Head(bs) < 128
       THEN LET rest == decode(Tail(bs))
            IN  IF rest.ok THEN [ok |-> TRUE, text |-> <<AsciiChar(Head(bs))>> \o rest.text]
                ELSE [ok |-> FALSE, text |-> <<>>]
  ELSE IF Head(bs) = 195 /\ Len(bs) >= 2 /\ bs[2] = 169
       THEN LET rest == decode(Tail(Tail(bs)))
            IN  IF rest.ok THEN [ok |-> TRUE, text |-> <<"e-acute">> \o rest.text]
                ELSE [ok |-> FALSE, text |-> <<>>]
  ELSE [ok |-> FALSE, text |-> <<>>]

RECURSIVE lstrip(_)
lstrip(s) ==
  IF s # <<>> /\ Head(s) \in Whitespace THEN lstrip(Tail(s)) ELSE s

RECURSIVE rstrip(_)
rstrip(s) ==
  IF s # <<>> /\ s[Len(s)] \in Whitespace THEN rstrip(SubSeq(s, 1, Len(s) - 1)) ELSE s

\* only the leading whitespace removed
strip_leading(s) == lstrip(s)

strip(s) == rstrip(lstrip(s))

\* the test made on the command as given, leading whitespace included
StartsWithHelmfile_unstripped(cmd) ==
  cmd # <<>> /\ Head(cmd) = "helmfile"

\* command.strip().startswith("helmfile")
StartsWithHelmfile(cmd) ==
  LET c == strip(cmd) IN c # <<>> /\ Head(c) = "helmfile"

\* if not command.strip().startswith("helmfile"): command = f"helmfile {command}"
PrefixCommand(cmd) ==
  IF StartsWithHelmfile(cmd) THEN cmd ELSE <<"helmfile", " ">> \o cmd

\* the Field wrapper not unwrapped: no usable deadline for it
ActualTimeout_wrapper(t) ==
  IF t.tag = "int" /\ t.val # 0 THEN t.val
  ELSE IF t.tag = "None" THEN DefaultTimeout ELSE 0

\* timeout.default if hasattr(timeout, 'default') else timeout;  ... or 300
ActualTimeout(t) ==
  IF t.tag = "int" /\ t.val # 0 THEN t.val ELSE DefaultTimeout

\* --------------------------------------------------------- result builders
Success(text) == [status |-> "success", output |-> text]

Error(code, message) ==
  [status |-> "error", error |-> [code |-> code, message |-> message]]

\* f"Command timed out after {actual_timeout} seconds"
TimedOutMessage(t) == [fmt |-> "Command timed out after {} seconds", arg |-> t]

\* f"Failed to terminate process: {str(e)}"
TerminationMessage(e) == [fmt |-> "Failed to terminate process: {}", arg |-> e]

\* str(e)
ExceptionMessage(e) == [fmt |-> "{}", arg |-> e]

\* stderr.decode().strip()
TextMessage(text) == [fmt |-> "text", arg |-> text]

NoResult == [status |-> "none"]

\* ------------------------------------------------------------------- state
VARIABLES
  pc,             \* position of the coroutine
  command,        \* parameter / local `command`
  timeout,        \* parameter `timeout`
  ctx,            \* parameter `ctx`
  actual_timeout, \* local `actual_timeout`
  kind,           \* kind of the process object
  proc,           \* OS process: "none", "running", "exited" (zombie), "reaped"
  exitStatus,     \* status the OS holds for an exited process
  returncode,     \* process.returncode: <<>> is None, <<n>> is n
  stdout, stderr, \* locals bound by communicate()
  result,         \* the dictionary returned
  escaped,        \* exception propagated to the caller, "" if none
  deadlineFired,  \* wait_for(communicate) raised TimeoutError
  graceExpired,   \* wait_for(wait) raised TimeoutError
  failed,         \* exceptions raised so far: pairs <<step, detail>>
  shell,          \* command lines handed to create_subprocess_shell
  ctxLog,         \* messages received by ctx.info
  signals,        \* signals delivered to the process
  deadlines,      \* timeouts handed to asyncio.wait_for, in order
  calls,          \* how often each process method was called
  sync,           \* the frame of sync_helmfile, when it is the entry point
  frames,         \* the frames of two concurrent invocations
  os              \* the processes of two concurrent invocations

vars == << pc, command, timeout, ctx, actual_timeout, kind, proc, exitStatus,
           returncode, stdout, stderr, result, escaped, deadlineFired,
           graceExpired, failed, shell, ctxLog, signals, deadlines, calls,
           sync, frames, os >>

NoCalls == [communicate |-> 0, terminate |-> 0, wait |-> 0, kill |-> 0, returns |-> 0]

\* no call of sync_helmfile, no second invocation
NoSync == [active |-> FALSE]

NoFrames == <<>>

NoProcesses == <<>>

\* the frame of an execute_helmfile that has not run a statement yet
Fresh ==
  /\ actual_timeout = 0
  /\ kind = "none"
  /\ proc = "none"
  /\ exitStatus = 0
  /\ returncode = <<>>
  /\ stdout = <<>>
  /\ stderr = <<>>
  /\ result = NoResult
  /\ escaped = ""
  /\ deadlineFired = FALSE
  /\ graceExpired = FALSE
  /\ failed = {}
  /\ shell = <<>>
  /\ ctxLog = <<>>
  /\ signals = {}
  /\ deadlines = <<>>
  /\ calls = NoCalls

Init ==
  /\ pc = "start"
  /\ command \in Commands
  /\ timeout \in Timeouts
  /\ ctx \in Contexts
  /\ sync = NoSync
  /\ frames = NoFrames
  /\ os = NoProcesses
  /\ actual_timeout = 0
  /\ kind = "none"
  /\ proc = "none"
  /\ exitStatus = 0
  /\ returncode = <<>>
  /\ stdout = <<>>
  /\ stderr = <<>>
  /\ result = NoResult
  /\ escaped = ""
  /\ deadlineFired = FALSE
  /\ graceExpired = FALSE
  /\ failed = {}
  /\ shell = <<>>
  /\ ctxLog = <<>>
  /\ signals = {}
  /\ deadlines = <<>>
  /\ calls = NoCalls

\* return <dict>
Return(r) ==
  /\ result' = r
  /\ calls' = [calls EXCEPT !.returns = @ + 1]
  /\ pc' = "done"

\* as Return, when the step also counts a method call
ReturnCounting(r, method) ==
  /\ result' = r
  /\ calls' = [calls EXCEPT !.returns = @ + 1, ![method] = @ + 1]
  /\ pc' = "done"

\* lines 56-66: normalise the timeout, prefix the command, test ctx
Enter ==
  /\ pc = "start"
  /\ actual_timeout' = ActualTimeout(timeout)
  /\ command' = PrefixCommand(command)
  /\ pc' = IF ctx # "None" THEN "notify" ELSE "spawn"
  /\ UNCHANGED << timeout, ctx, kind, proc, exitStatus, returncode, stdout,
                  stderr, result, escaped, deadlineFired, graceExpired,
                  failed, shell, ctxLog, signals, deadlines, calls >>
  /\ UNCHANGED << sync, frames, os >>

\* lines 67-69: await ctx.info(...), outside every try block
\* the same words for every command
InfoMessageOf_plain(cmd, t) ==
  [words |-> <<"Executing", " Helmfile command">>, timeout |-> t]

\* "Executing" + (" piped" if "|" in command else "") + " Helmfile command"
\* + f" with timeout: {actual_timeout}s"
InfoMessageOf(cmd, t) ==
  [words |-> <<"Executing">>
             \o (IF \E i \in 1..Len(cmd) : cmd[i] = "|" THEN <<" piped">> ELSE <<>>)
             \o <<" Helmfile command">>,
   timeout |-> t]

InfoMessage == InfoMessageOf(command, actual_timeout)

Notify ==
  /\ pc = "notify"
  /\ IF ctx = "failing"
     THEN /\ pc' = "raised"
          /\ escaped' = "info failure"
          /\ failed' = failed \cup {<<"info", "info failure">>}
          /\ UNCHANGED ctxLog
     ELSE /\ pc' = "spawn"
          /\ ctxLog' = Append(ctxLog, InfoMessage)
          /\ UNCHANGED << escaped, failed >>
  /\ UNCHANGED << command, timeout, ctx, actual_timeout, kind, proc,
                  exitStatus, returncode, stdout, stderr, result,
                  deadlineFired, graceExpired, shell, signals, deadlines, calls >>
  /\ UNCHANGED << sync, frames, os >>

\* lines 73-77: await asyncio.create_subprocess_shell(command, ...)
SpawnOk ==
  /\ pc = "spawn"
  /\ \E k \in ProcKinds : kind' = k
  /\ proc' = "running"
  /\ shell' = Append(shell, command)
  /\ pc' = "await"
  /\ calls' = [calls EXCEPT !.communicate = @ + 1]
  /\ deadlines' = Append(deadlines, actual_timeout)
  /\ UNCHANGED << command, timeout, ctx, actual_timeout, exitStatus,
                  returncode, stdout, stderr, result, escaped, deadlineFired,
                  graceExpired, failed, ctxLog, signals >>
  /\ UNCHANGED << sync, frames, os >>

\* a failing spawn reported as a failure of the command
SpawnFailsAsCommandError ==
  /\ pc = "spawn"
  /\ \E e \in SpawnErrors :
       /\ failed' = failed \cup {<<"spawn", e>>}
       /\ Return(Error("COMMAND_ERROR", ExceptionMessage(e)))
  /\ shell' = Append(shell, command)
  /\ UNCHANGED << command, timeout, ctx, actual_timeout, kind, proc,
                  exitStatus, returncode, stdout, stderr, escaped,
                  deadlineFired, graceExpired, ctxLog, signals, deadlines >>
  /\ UNCHANGED << sync, frames, os >>

\* lines 73-77 raise; lines 123-131 catch
SpawnFails ==
  /\ pc = "spawn"
  /\ \E e \in SpawnErrors :
       /\ failed' = failed \cup {<<"spawn", e>>}
       /\ Return(Error("INTERNAL_ERROR", ExceptionMessage(e)))
  /\ shell' = Append(shell, command)
  /\ UNCHANGED << command, timeout, ctx, actual_timeout, kind, proc,
                  exitStatus, returncode, stdout, stderr, escaped,
                  deadlineFired, graceExpired, ctxLog, signals, deadlines >>
  /\ UNCHANGED << sync, frames, os >>

\* ------------------------------------------------ the process and the loop
\* the process exits, by itself or on a signal it has received
SignalStatuses ==
  (IF "TERM" \in signals THEN {-15} ELSE {}) \cup
  (IF "KILL" \in signals THEN {-9} ELSE {})

ProcExits ==
  /\ proc = "running"
  /\ proc' = "exited"
  /\ \E s \in ExitCodes \cup SignalStatuses : exitStatus' = s
  /\ UNCHANGED << pc, command, timeout, ctx, actual_timeout, kind, returncode,
                  stdout, stderr, result, escaped, deadlineFired, graceExpired,
                  failed, shell, ctxLog, signals, deadlines, calls >>
  /\ UNCHANGED << sync, frames, os >>

\* the event loop's child watcher collects the exit status and sets
\* process.returncode
Reap ==
  /\ proc = "exited"
  /\ proc' = "reaped"
  /\ returncode' = <<exitStatus>>
  /\ UNCHANGED << pc, command, timeout, ctx, actual_timeout, kind, exitStatus,
                  stdout, stderr, result, escaped, deadlineFired, graceExpired,
                  failed, shell, ctxLog, signals, deadlines, calls >>
  /\ UNCHANGED << sync, frames, os >>

\* ------------------------------------------------------------ lines 79-131
\* await <expr>: a plain method of asyncio.subprocess.Process returns None,
\* and awaiting None raises TypeError
AwaitSucceeds(k) == k = "awaitable"

AwaitNoneError == "TypeError: object NoneType can't be used in 'await' expression"

\* the error message taken from stdout instead of stderr
Resolve_stdout(rc, out, err) ==
  IF decode(out).ok
  THEN IF rc = <<0>> THEN Success(strip(decode(out).text))
       ELSE Error("COMMAND_ERROR", TextMessage(strip(decode(out).text)))
  ELSE Error("INTERNAL_ERROR", ExceptionMessage("UnicodeDecodeError"))

\* success only when the process wrote something
Resolve_emptyIsError(rc, out, err) ==
  IF rc = <<0>> /\ out # <<>>
  THEN IF decode(out).ok
       THEN Success(strip(decode(out).text))
       ELSE Error("INTERNAL_ERROR", ExceptionMessage("UnicodeDecodeError"))
  ELSE IF decode(err).ok
       THEN Error("COMMAND_ERROR", TextMessage(strip(decode(err).text)))
       ELSE Error("INTERNAL_ERROR", ExceptionMessage("UnicodeDecodeError"))

\* lines 108-121 and, for a failing decode, lines 123-131
Resolve(rc, out, err) ==
  IF rc = <<0>>
  THEN IF decode(out).ok
       THEN Success(strip(decode(out).text))
       ELSE Error("INTERNAL_ERROR", ExceptionMessage("UnicodeDecodeError"))
  ELSE IF decode(err).ok
       THEN Error("COMMAND_ERROR", TextMessage(strip(decode(err).text)))
       ELSE Error("INTERNAL_ERROR", ExceptionMessage("UnicodeDecodeError"))

\* line 80 returns: communicate() completed before the deadline
Complete ==
  /\ pc = "await"
  /\ proc = "reaped"
  /\ \E out \in ByteStrings, err \in ByteStrings :
       /\ stdout' = out
       /\ stderr' = err
       /\ Return(Resolve(returncode, out, err))
       /\ failed' = IF Resolve(returncode, out, err).status = "error"
                       /\ Resolve(returncode, out, err).error.code = "INTERNAL_ERROR"
                    THEN failed \cup {<<"decode", "UnicodeDecodeError">>} ELSE failed
  /\ UNCHANGED << command, timeout, ctx, actual_timeout, kind, proc,
                  exitStatus, returncode, escaped, deadlineFired,
                  graceExpired, shell, ctxLog, signals, deadlines >>
  /\ UNCHANGED << sync, frames, os >>

\* every exception of the await taken for the deadline
AwaitRaisesAsTimeout ==
  /\ pc = "await"
  /\ failed' = failed \cup {<<"communicate", "communicate failure">>}
  /\ Return(Error("TIMEOUT", TimedOutMessage(actual_timeout)))
  /\ UNCHANGED << command, timeout, ctx, actual_timeout, kind, proc,
                  exitStatus, returncode, stdout, stderr, escaped,
                  deadlineFired, graceExpired, shell, ctxLog, signals, deadlines >>
  /\ UNCHANGED << sync, frames, os >>

\* line 80 raises something other than TimeoutError; lines 123-131 catch
AwaitRaises ==
  /\ pc = "await"
  /\ failed' = failed \cup {<<"communicate", "communicate failure">>}
  /\ Return(Error("INTERNAL_ERROR", ExceptionMessage("communicate failure")))
  /\ UNCHANGED << command, timeout, ctx, actual_timeout, kind, proc,
                  exitStatus, returncode, stdout, stderr, escaped,
                  deadlineFired, graceExpired, shell, ctxLog, signals, deadlines >>
  /\ UNCHANGED << sync, frames, os >>

\* communicate() awaited without a deadline
DeadlineNever ==
  /\ pc = "await"
  /\ FALSE
  /\ UNCHANGED vars

\* line 80 raises TimeoutError: the deadline elapsed first (line 81)
DeadlineFires ==
  /\ pc = "await"
  /\ deadlineFired' = TRUE
  /\ pc' = "terminate"
  /\ UNCHANGED << command, timeout, ctx, actual_timeout, kind, proc,
                  exitStatus, returncode, stdout, stderr, result, escaped,
                  graceExpired, failed, shell, ctxLog, signals, deadlines, calls >>
  /\ UNCHANGED << sync, frames, os >>

\* line 84: process.terminate() itself raises; lines 91-99 catch
TerminateRaises ==
  /\ pc = "terminate"
  /\ failed' = failed \cup {<<"terminate", "terminate failure">>}
  /\ ReturnCounting(Error("TERMINATION_ERROR", TerminationMessage("terminate failure")),
                    "terminate")
  /\ UNCHANGED << command, timeout, ctx, actual_timeout, kind, proc,
                  exitStatus, returncode, stdout, stderr, escaped,
                  deadlineFired, graceExpired, shell, ctxLog, signals, deadlines >>
  /\ UNCHANGED << sync, frames, os >>

\* line 84: process.terminate() sends SIGTERM, then its value is awaited;
\* line 86 starts the grace-period wait
TerminateSent ==
  /\ pc = "terminate"
  /\ signals' = signals \cup {"TERM"}
  /\ IF AwaitSucceeds(kind)
     THEN /\ pc' = "gracewait"
          /\ calls' = [calls EXCEPT !.terminate = @ + 1, !.wait = @ + 1]
          /\ deadlines' = Append(deadlines, GracePeriod)
          /\ UNCHANGED << result, failed >>
     ELSE /\ failed' = failed \cup {<<"await terminate", AwaitNoneError>>}
          /\ UNCHANGED deadlines
          /\ ReturnCounting(Error("TERMINATION_ERROR", TerminationMessage(AwaitNoneError)),
                            "terminate")
  /\ UNCHANGED << command, timeout, ctx, actual_timeout, kind, proc,
                  exitStatus, returncode, stdout, stderr, escaped,
                  deadlineFired, graceExpired, shell, ctxLog >>
  /\ UNCHANGED << sync, frames, os >>

TimeoutResult == Error("TIMEOUT", TimedOutMessage(actual_timeout))

\* a graceful exit resolved like a normal completion
WaitReturnsResolved ==
  /\ pc = "gracewait"
  /\ proc = "reaped"
  /\ Return(Resolve(returncode, <<>>, <<>>))
  /\ UNCHANGED << command, timeout, ctx, actual_timeout, kind, proc,
                  exitStatus, returncode, stdout, stderr, escaped,
                  deadlineFired, graceExpired, failed, shell, ctxLog, signals,
                  deadlines >>
  /\ UNCHANGED << sync, frames, os >>

\* line 86 returns: the process exited within the grace period; lines 100-106
WaitReturns ==
  /\ pc = "gracewait"
  /\ proc = "reaped"
  /\ Return(TimeoutResult)
  /\ UNCHANGED << command, timeout, ctx, actual_timeout, kind, proc,
                  exitStatus, returncode, stdout, stderr, escaped,
                  deadlineFired, graceExpired, failed, shell, ctxLog, signals, deadlines >>
  /\ UNCHANGED << sync, frames, os >>

\* a failing wait followed by a final kill before the error is reported
WaitRaisesThenKill ==
  /\ pc = "gracewait"
  /\ failed' = failed \cup {<<"wait", "wait failure">>}
  /\ signals' = signals \cup {"KILL"}
  /\ ReturnCounting(Error("TERMINATION_ERROR", TerminationMessage("wait failure")), "kill")
  /\ UNCHANGED << command, timeout, ctx, actual_timeout, kind, proc,
                  exitStatus, returncode, stdout, stderr, escaped,
                  deadlineFired, graceExpired, shell, ctxLog, deadlines >>
  /\ UNCHANGED << sync, frames, os >>

\* line 86 raises something other than TimeoutError; lines 91-99 catch
WaitRaises ==
  /\ pc = "gracewait"
  /\ failed' = failed \cup {<<"wait", "wait failure">>}
  /\ Return(Error("TERMINATION_ERROR", TerminationMessage("wait failure")))
  /\ UNCHANGED << command, timeout, ctx, actual_timeout, kind, proc,
                  exitStatus, returncode, stdout, stderr, escaped,
                  deadlineFired, graceExpired, shell, ctxLog, signals, deadlines >>
  /\ UNCHANGED << sync, frames, os >>

\* line 87 with returncode set at line 89: no kill; lines 100-106
GraceExpiresExited ==
  /\ pc = "gracewait"
  /\ returncode # <<>>
  /\ graceExpired' = TRUE
  /\ Return(TimeoutResult)
  /\ UNCHANGED << command, timeout, ctx, actual_timeout, kind, proc,
                  exitStatus, returncode, stdout, stderr, escaped,
                  deadlineFired, failed, shell, ctxLog, signals, deadlines >>
  /\ UNCHANGED << sync, frames, os >>

\* lines 87-90: returncode is None, process.kill() sends SIGKILL and its
\* value is awaited; lines 100-106
GraceExpiresKill ==
  /\ pc = "gracewait"
  /\ returncode = <<>>
  /\ graceExpired' = TRUE
  /\ signals' = signals \cup {"KILL"}
  /\ IF AwaitSucceeds(kind)
     THEN /\ ReturnCounting(TimeoutResult, "kill")
          /\ UNCHANGED failed
     ELSE /\ failed' = failed \cup {<<"await kill", AwaitNoneError>>}
          /\ ReturnCounting(Error("TERMINATION_ERROR", TerminationMessage(AwaitNoneError)),
                            "kill")
  /\ UNCHANGED << command, timeout, ctx, actual_timeout, kind, proc,
                  exitStatus, returncode, stdout, stderr, escaped,
                  deadlineFired, shell, ctxLog, deadlines >>
  /\ UNCHANGED << sync, frames, os >>

\* a failure of kill swallowed, the timeout reported
GraceExpiresKillSwallowed ==
  /\ pc = "gracewait"
  /\ returncode = <<>>
  /\ graceExpired' = TRUE
  /\ failed' = failed \cup {<<"kill", "kill failure">>}
  /\ ReturnCounting(TimeoutResult, "kill")
  /\ UNCHANGED << command, timeout, ctx, actual_timeout, kind, proc,
                  exitStatus, returncode, stdout, stderr, escaped,
                  deadlineFired, shell, ctxLog, signals, deadlines >>
  /\ UNCHANGED << sync, frames, os >>

\* lines 87-90: process.kill() itself raises; lines 91-99 catch
GraceExpiresKillRaises ==
  /\ pc = "gracewait"
  /\ returncode = <<>>
  /\ graceExpired' = TRUE
  /\ failed' = failed \cup {<<"kill", "kill failure">>}
  /\ ReturnCounting(Error("TERMINATION_ERROR", TerminationMessage("kill failure")), "kill")
  /\ UNCHANGED << command, timeout, ctx, actual_timeout, kind, proc,
                  exitStatus, returncode, stdout, stderr, escaped,
                  deadlineFired, shell, ctxLog, signals, deadlines >>
  /\ UNCHANGED << sync, frames, os >>

\* the steps that have raised
FailedSteps == { f[1] : f \in failed }

\* the steps of the coroutine
Coroutine ==
  \/ Enter \/ Notify \/ SpawnOk \/ SpawnFails
  \/ Complete \/ AwaitRaises \/ DeadlineFires
  \/ TerminateRaises \/ TerminateSent
  \/ WaitReturns \/ WaitRaises
  \/ GraceExpiresExited \/ GraceExpiresKill \/ GraceExpiresKillRaises

Next ==
  \/ Enter \/ Notify \/ SpawnOk \/ SpawnFails
  \/ ProcExits \/ Reap
  \/ Complete \/ AwaitRaises \/ DeadlineFires
  \/ TerminateRaises \/ TerminateSent
  \/ WaitReturns \/ WaitRaises
  \/ GraceExpiresExited \/ GraceExpiresKill \/ GraceExpiresKillRaises

Spec == Init /\ [][Next]_vars

\* the event loop resumes a coroutine whose awaited future is settled, and
\* both wait_for timers fire.  Nothing obliges the process to exit, nor any
\* call to raise.
FairSpec ==
  /\ Spec
  /\ WF_vars(Enter) /\ WF_vars(Notify) /\ WF_vars(SpawnOk)
  /\ WF_vars(DeadlineFires) /\ WF_vars(TerminateSent)
  /\ WF_vars(GraceExpiresExited) /\ WF_vars(GraceExpiresKill)

\* ---------------------------------------------- sync_helmfile, lines 136-170
\* namespace argument: None, the unresolved Field wrapper, or a string
Namespaces ==
  { [tag |-> "None"], [tag |-> "FieldInfo"],
    [tag |-> "str", val |-> <<>>], [tag |-> "str", val |-> <<" ">>],
    [tag |-> "str", val |-> <<"ns1">>], [tag |-> "str", val |-> <<" ", "ns1", " ">>] }

Paths == { "/tmp/x.yaml" }

SyncTimeouts == { [tag |-> "FieldInfo"], [tag |-> "int", val |-> 1] }

\* x.default if hasattr(x, 'default') else x, for Field(default=None)
Unwrap(x) == IF x.tag = "FieldInfo" THEN [tag |-> "None"] ELSE x

\* the namespace appended with its surrounding whitespace
SyncCommand_unstripped(path, namespace) ==
  LET actual_namespace == Unwrap(namespace)
  IN  <<"helmfile", " ", "sync", " ", "-f", " ", path>>
      \o (IF /\ actual_namespace.tag = "str"
             /\ actual_namespace.val # <<>>
             /\ strip(actual_namespace.val) # <<>>
          THEN <<" ", "-n", " ">> \o actual_namespace.val
          ELSE <<>>)

\* lines 157-168: command_parts joined by single spaces
SyncCommand(path, namespace) ==
  LET actual_namespace == Unwrap(namespace)
  IN  <<"helmfile", " ", "sync", " ", "-f", " ", path>>
      \o (IF /\ actual_namespace.tag = "str"
             /\ actual_namespace.val # <<>>
             /\ strip(actual_namespace.val) # <<>>
          THEN <<" ", "-n", " ">> \o strip(actual_namespace.val)
          ELSE <<>>)

SyncInit ==
  /\ pc = "idle"
  /\ command = <<>>
  /\ timeout = [tag |-> "None"]
  /\ ctx \in Contexts
  /\ \E p \in Paths, n \in Namespaces, t \in SyncTimeouts :
       sync = [active |-> TRUE, pc |-> "build", helmfile_path |-> p,
               namespace |-> n, timeout |-> t, command |-> <<>>,
               result |-> NoResult]
  /\ frames = NoFrames
  /\ os = NoProcesses
  /\ Fresh

\* lines 157-170, up to the call of execute_helmfile
SyncCall ==
  /\ sync.active
  /\ sync.pc = "build"
  /\ pc = "idle"
  /\ LET cmd == SyncCommand(sync.helmfile_path, sync.namespace)
     IN  /\ sync' = [sync EXCEPT !.pc = "await", !.command = cmd]
         /\ command' = cmd
  /\ timeout' = Unwrap(sync.timeout)
  /\ pc' = "start"
  /\ UNCHANGED << ctx, actual_timeout, kind, proc, exitStatus, returncode,
                  stdout, stderr, result, escaped, deadlineFired,
                  graceExpired, failed, shell, ctxLog, signals, deadlines,
                  calls, frames, os >>

\* line 170: return await execute_helmfile(...)
SyncReturn ==
  /\ sync.active
  /\ sync.pc = "await"
  /\ pc = "done"
  /\ sync' = [sync EXCEPT !.pc = "done", !.result = result]
  /\ UNCHANGED << pc, command, timeout, ctx, actual_timeout, kind, proc,
                  exitStatus, returncode, stdout, stderr, result, escaped,
                  deadlineFired, graceExpired, failed, shell, ctxLog, signals,
                  deadlines, calls, frames, os >>

\* line 170: an exception of execute_helmfile propagates
SyncRaises ==
  /\ sync.active
  /\ sync.pc = "await"
  /\ pc = "raised"
  /\ sync' = [sync EXCEPT !.pc = "raised"]
  /\ UNCHANGED << pc, command, timeout, ctx, actual_timeout, kind, proc,
                  exitStatus, returncode, stdout, stderr, result, escaped,
                  deadlineFired, graceExpired, failed, shell, ctxLog, signals,
                  deadlines, calls, frames, os >>

SyncNext ==
  \/ SyncCall \/ SyncReturn \/ SyncRaises
  \/ Enter \/ Notify \/ SpawnOk \/ SpawnFails
  \/ ProcExits \/ Reap
  \/ Complete \/ AwaitRaises \/ DeadlineFires
  \/ TerminateRaises \/ TerminateSent
  \/ WaitReturns \/ WaitRaises
  \/ GraceExpiresExited \/ GraceExpiresKill \/ GraceExpiresKillRaises

SyncSpec == SyncInit /\ [][SyncNext]_vars

\* ------------------------------------- two invocations on one event loop
\* Each invocation has its own frame (parameters and locals of lines 27-131);
\* the processes live in one table of the operating system.  The coroutines
\* interleave at their awaits.
Invs == { 1, 2 }

Pids == { 1, 2 }

PairCommands == { <<"version">>, <<"list", "|", "grep">> }

PairTimeouts == { [tag |-> "int", val |-> 1] }

\* what the processes of the two invocations write
PairStdouts == { <<>>, <<97>>, <<169>> }

PairStderrs == { <<>>, <<169>> }

NoProcess == [state |-> "none", kind |-> "none", exitStatus |-> 0,
              returncode |-> <<>>, signals |-> {}]

\* one observation an invocation makes of its environment
Event(step, detail, code, outOk, errOk) ==
  [step |-> step, detail |-> detail, code |-> code, outOk |-> outOk, errOk |-> errOk]

Saw(step, detail) == Event(step, detail, 0, TRUE, TRUE)

PairInit ==
  /\ pc = "idle"
  /\ command = <<>>
  /\ timeout = [tag |-> "None"]
  /\ ctx = "None"
  /\ sync = NoSync
  /\ Fresh
  /\ frames \in [Invs -> { [pc |-> "start", given |-> c, command |-> c, timeout |-> t,
                            actual_timeout |-> 0, ctx |-> x, process |-> 0,
                            stdout |-> <<>>, stderr |-> <<>>, result |-> NoResult,
                            sent |-> <<>>, beh |-> <<>>] :
                           c \in PairCommands, t \in PairTimeouts, x \in Contexts }]
  /\ os = [p \in Pids |-> NoProcess]

single == << pc, command, timeout, ctx, actual_timeout, kind, proc, exitStatus,
             returncode, stdout, stderr, result, escaped, deadlineFired,
             graceExpired, failed, shell, ctxLog, signals, deadlines, calls,
             sync >>

\* a module-level `process`: the handle of the process spawned last
Handle_shared(i) ==
  CHOOSE p \in Pids \cup {0} :
    /\ p # 0 => os[p].state # "none"
    /\ \A q \in Pids : os[q].state # "none" => q <= p

\* line 73: `process` is a local of the invocation
Handle(i) == frames[i].process

\* the frame of invocation i after it has observed ev
Observe(i, ev) == [frames[i] EXCEPT !.beh = Append(@, ev)]

\* return <dict>, in invocation i after it has observed ev
PReturn(i, ev, r) ==
  frames' = [frames EXCEPT ![i] = [Observe(i, ev) EXCEPT !.pc = "done", !.result = r]]

\* the process p after signal sig of invocation i
Signalled(p, sig, i) == [os EXCEPT ![p].signals = @ \cup {<<sig, i>>}]

\* lines 56-66
PEnter(i) ==
  /\ frames[i].pc = "start"
  /\ frames' = [frames EXCEPT ![i] =
       [@ EXCEPT !.actual_timeout = ActualTimeout(frames[i].timeout),
                 !.command = PrefixCommand(frames[i].command),
                 !.pc = IF frames[i].ctx # "None" THEN "notify" ELSE "spawn"]]
  /\ UNCHANGED << os, single >>

\* lines 67-69
PNotify(i) ==
  /\ frames[i].pc = "notify"
  /\ LET msg == InfoMessageOf(frames[i].command, frames[i].actual_timeout)
     IN  IF frames[i].ctx = "failing"
         THEN frames' = [frames EXCEPT ![i] =
                [Observe(i, Saw("info", "raises")) EXCEPT
                   !.pc = "raised", !.sent = Append(@, msg)]]
         ELSE frames' = [frames EXCEPT ![i] =
                [Observe(i, Saw("info", "ok")) EXCEPT
                   !.pc = "spawn", !.sent = Append(@, msg)]]
  /\ UNCHANGED << os, single >>

\* lines 73-77: a new process, bound to the invocation's `process`
PSpawnOk(i) ==
  /\ frames[i].pc = "spawn"
  /\ \E p \in Pids, k \in ProcKinds :
       /\ os[p].state = "none"
       /\ \A q \in Pids : q < p => os[q].state # "none"
       /\ os' = [os EXCEPT ![p] = [NoProcess EXCEPT !.state = "running", !.kind = k]]
       /\ frames' = [frames EXCEPT ![i] =
            [Observe(i, Saw("spawn", "ok")) EXCEPT !.pc = "await", !.process = p]]
  /\ UNCHANGED single

\* lines 73-77 raise; lines 123-131
PSpawnFails(i) ==
  /\ frames[i].pc = "spawn"
  /\ \E e \in SpawnErrors :
       PReturn(i, Saw("spawn", e), Error("INTERNAL_ERROR", ExceptionMessage(e)))
  /\ UNCHANGED << os, single >>

PSignalStatuses(p) ==
  (IF \E i \in Invs : <<"TERM", i>> \in os[p].signals THEN {-15} ELSE {}) \cup
  (IF \E i \in Invs : <<"KILL", i>> \in os[p].signals THEN {-9} ELSE {})

PProcExits(p) ==
  /\ os[p].state = "running"
  /\ \E st \in ExitCodes \cup PSignalStatuses(p) :
       os' = [os EXCEPT ![p].state = "exited", ![p].exitStatus = st]
  /\ UNCHANGED << frames, single >>

PReap(p) ==
  /\ os[p].state = "exited"
  /\ os' = [os EXCEPT ![p].state = "reaped", ![p].returncode = <<os[p].exitStatus>>]
  /\ UNCHANGED << frames, single >>

\* the text of bs exists: bs is valid UTF-8
Valid(bs) == decode(bs).ok

\* line 80 returns for the process communicate() was called on; lines 108-121
PComplete(i) ==
  /\ frames[i].pc = "await"
  /\ os[frames[i].process].state = "reaped"
  /\ \E out \in PairStdouts, err \in PairStderrs :
       frames' = [frames EXCEPT ![i] =
         [Observe(i, Event("communicate", "returns",
                           os[frames[i].process].exitStatus, Valid(out), Valid(err)))
            EXCEPT !.pc = "done", !.stdout = out, !.stderr = err,
                   !.result = Resolve(os[Handle(i)].returncode, out, err)]]
  /\ UNCHANGED << os, single >>

\* line 80 raises something else; lines 123-131
PAwaitRaises(i) ==
  /\ frames[i].pc = "await"
  /\ PReturn(i, Saw("communicate", "raises"),
             Error("INTERNAL_ERROR", ExceptionMessage("communicate failure")))
  /\ UNCHANGED << os, single >>

\* line 80 raises TimeoutError
PDeadlineFires(i) ==
  /\ frames[i].pc = "await"
  /\ frames' = [frames EXCEPT ![i] =
       [Observe(i, Saw("communicate", "deadline")) EXCEPT !.pc = "terminate"]]
  /\ UNCHANGED << os, single >>

\* line 84 raises
PTerminateRaises(i) ==
  /\ frames[i].pc = "terminate"
  /\ PReturn(i, Saw("terminate", "raises"),
             Error("TERMINATION_ERROR", TerminationMessage("terminate failure")))
  /\ UNCHANGED << os, single >>

\* line 84 sends SIGTERM to `process`; line 86 starts the wait
PTerminateSent(i) ==
  /\ frames[i].pc = "terminate"
  /\ os' = Signalled(Handle(i), "TERM", i)
  /\ IF AwaitSucceeds(os[Handle(i)].kind)
     THEN frames' = [frames EXCEPT ![i] =
            [Observe(i, Saw("terminate", "sent")) EXCEPT !.pc = "gracewait"]]
     ELSE PReturn(i, Saw("terminate", "await raises"),
                  Error("TERMINATION_ERROR", TerminationMessage(AwaitNoneError)))
  /\ UNCHANGED single

PTimeoutResult(i) == Error("TIMEOUT", TimedOutMessage(frames[i].actual_timeout))

\* line 86 returns
PWaitReturns(i) ==
  /\ frames[i].pc = "gracewait"
  /\ os[Handle(i)].state = "reaped"
  /\ PReturn(i, Saw("wait", "returns"), PTimeoutResult(i))
  /\ UNCHANGED << os, single >>

\* line 86 raises something else
PWaitRaises(i) ==
  /\ frames[i].pc = "gracewait"
  /\ PReturn(i, Saw("wait", "raises"),
             Error("TERMINATION_ERROR", TerminationMessage("wait failure")))
  /\ UNCHANGED << os, single >>

\* lines 87-89 with returncode set
PGraceExpiresExited(i) ==
  /\ frames[i].pc = "gracewait"
  /\ os[Handle(i)].returncode # <<>>
  /\ PReturn(i, Saw("wait", "timeout, exited"), PTimeoutResult(i))
  /\ UNCHANGED << os, single >>

\* lines 87-90: SIGKILL to `process`
PGraceExpiresKill(i) ==
  /\ frames[i].pc = "gracewait"
  /\ os[Handle(i)].returncode = <<>>
  /\ os' = Signalled(Handle(i), "KILL", i)
  /\ IF AwaitSucceeds(os[Handle(i)].kind)
     THEN PReturn(i, Saw("wait", "timeout, killed"), PTimeoutResult(i))
     ELSE PReturn(i, Saw("wait", "timeout, await kill raises"),
                  Error("TERMINATION_ERROR", TerminationMessage(AwaitNoneError)))
  /\ UNCHANGED single

\* lines 87-90: kill() raises
PGraceExpiresKillRaises(i) ==
  /\ frames[i].pc = "gracewait"
  /\ os[Handle(i)].returncode = <<>>
  /\ PReturn(i, Saw("wait", "timeout, kill raises"),
             Error("TERMINATION_ERROR", TerminationMessage("kill failure")))
  /\ UNCHANGED << os, single >>

PairNext ==
  \/ \E i \in Invs : PEnter(i)
  \/ \E i \in Invs : PNotify(i)
  \/ \E i \in Invs : PSpawnOk(i)
  \/ \E i \in Invs : PSpawnFails(i)
  \/ \E p \in Pids : PProcExits(p)
  \/ \E p \in Pids : PReap(p)
  \/ \E i \in Invs : PComplete(i)
  \/ \E i \in Invs : PAwaitRaises(i)
  \/ \E i \in Invs : PDeadlineFires(i)
  \/ \E i \in Invs : PTerminateRaises(i)
  \/ \E i \in Invs : PTerminateSent(i)
  \/ \E i \in Invs : PWaitReturns(i)
  \/ \E i \in Invs : PWaitRaises(i)
  \/ \E i \in Invs : PGraceExpiresExited(i)
  \/ \E i \in Invs : PGraceExpiresKill(i)
  \/ \E i \in Invs : PGraceExpiresKillRaises(i)

PairSpec == PairInit /\ [][PairNext]_vars

\* =================================================================== claims
\* vocabulary of the claims
Returned == pc = "done"

Ended == pc \in {"done", "raised"}

\* communicate() returned before the deadline and lines 108-121 ran
Completed ==
  /\ Returned
  /\ kind # "none"
  /\ ~deadlineFired
  /\ "communicate" \notin FailedSteps

ErrorCodes == { "TIMEOUT", "TERMINATION_ERROR", "COMMAND_ERROR", "INTERNAL_ERROR" }

HasCode(r, code) == r.status = "error" /\ r.error.code = code

\* the bytes of a text: the inverse direction of bytes.decode()
Chars == { " ", "a", "e-acute" }

EncodeChar(c) ==
  IF c = " " THEN <<32>> ELSE IF c = "a" THEN <<97>> ELSE <<195, 169>>

RECURSIVE encode(_)
encode(t) == IF t = <<>> THEN <<>> ELSE EncodeChar(Head(t)) \o encode(Tail(t))

\* the texts whose encoding is bs (at most one)
TextsOf(bs) == { t \in SeqsUpTo(Chars, Len(bs)) : encode(t) = bs }

\* t is s without its leading and trailing whitespace
StrippedOf(t, s) ==
  \E i \in 1..(Len(s) + 1), j \in 0..Len(s) :
    /\ t = SubSeq(s, i, j)
    /\ \A k \in 1..(i - 1) : s[k] \in Whitespace
    /\ \A k \in (j + 1)..Len(s) : s[k] \in Whitespace
    /\ t # <<>> => (t[1] \notin Whitespace /\ t[Len(t)] \notin Whitespace)

\* C1: once execute_helmfile has returned, on whichever exit path, the
\* process it spawned is neither still running nor an unreaped zombie.
C1_NoProcessLeftBehind ==
  Returned => proc \in {"none", "reaped"}

\* C2: when the deadline elapses first and terminate, the grace-period wait
\* and kill raise nothing, the result is TIMEOUT with the message
\* "Command timed out after {timeout} seconds" for the effective timeout.
C2_TimeoutReported ==
  (Returned /\ deadlineFired /\ FailedSteps \cap {"terminate", "wait", "kill"} = {})
    => result = Error("TIMEOUT",
                      [fmt |-> "Command timed out after {} seconds", arg |-> deadlines[1]])

\* C3 as stated: every completion before the deadline with exit status 0
\* returns success whose output is the captured stdout without its leading
\* and trailing whitespace.
C3_SuccessForEveryExitZero ==
  (Completed /\ returncode = <<0>>)
    => /\ result.status = "success"
       /\ \E t \in TextsOf(stdout) : StrippedOf(result.output, t)

\* C3 amended: a completion before the deadline with exit status 0 whose
\* captured stdout is valid UTF-8 returns success, with no error field,
\* whose output is the text of stdout without its leading and trailing
\* whitespace.
C3_SuccessOutputIsStrippedStdout ==
  (Completed /\ returncode = <<0>> /\ TextsOf(stdout) # {})
    => /\ result.status = "success"
       /\ DOMAIN result = {"status", "output"}
       /\ \E t \in TextsOf(stdout) : StrippedOf(result.output, t)

C3_Witness ==
  /\ Completed
  /\ returncode = <<0>>
  /\ stdout = <<32, 97>>
  /\ result = [status |-> "success", output |-> <<"a">>]

\* C4 as stated: every completion before the deadline with a non-zero exit
\* status returns COMMAND_ERROR whose message is the captured stderr without
\* its leading and trailing whitespace, and no output.
C4_CommandErrorForEveryNonZeroExit ==
  (Completed /\ returncode # <<0>>)
    => /\ HasCode(result, "COMMAND_ERROR")
       /\ \E t \in TextsOf(stderr) : StrippedOf(result.error.message.arg, t)
       /\ "output" \notin DOMAIN result

\* C4 amended: a completion before the deadline with a non-zero exit status
\* whose captured stderr is valid UTF-8 returns COMMAND_ERROR whose message
\* is the text of stderr without its leading and trailing whitespace;
\* stdout is not returned.
C4_CommandErrorMessageIsStrippedStderr ==
  (Completed /\ returncode # <<0>> /\ TextsOf(stderr) # {})
    => /\ HasCode(result, "COMMAND_ERROR")
       /\ result.error.message.fmt = "text"
       /\ \E t \in TextsOf(stderr) : StrippedOf(result.error.message.arg, t)
       /\ "output" \notin DOMAIN result

C4_Witness ==
  /\ Completed
  /\ returncode = <<1>>
  /\ stdout = <<97>>
  /\ stderr = <<195, 169>>
  /\ result = [status |-> "error",
               error |-> [code |-> "COMMAND_ERROR",
                          message |-> [fmt |-> "text", arg |-> <<"e-acute">>]]]

\* C5: after the deadline has fired, a failure of terminate, of the
\* grace-period wait or of kill (other than the grace-period timeout) makes
\* the result TERMINATION_ERROR, never TIMEOUT.
TerminationSteps == { "terminate", "await terminate", "wait", "kill", "await kill" }

C5_TerminationFailureReported ==
  (deadlineFired /\ FailedSteps \cap TerminationSteps # {})
    => /\ Returned
       /\ HasCode(result, "TERMINATION_ERROR")
       /\ ~HasCode(result, "TIMEOUT")

C5_Witness ==
  /\ Returned
  /\ graceExpired
  /\ "kill" \in FailedSteps
  /\ HasCode(result, "TERMINATION_ERROR")

\* C6: in a timed-out invocation whose process has still not exited, with
\* neither terminate nor kill raising (and the grace-period wait ending by
\* its timeout, not by a failure), a kill was issued exactly once and the
\* result is TIMEOUT.
C6_KillOnceThenTimeout ==
  (/\ Returned
   /\ deadlineFired
   /\ returncode = <<>>
   /\ FailedSteps \cap {"terminate", "wait", "kill"} = {})
    => /\ calls.kill = 1
       /\ HasCode(result, "TIMEOUT")

\* C7: no failure escapes execute_helmfile: whatever step raises, the call
\* returns a structured error result.
C7_NoFailureEscapes ==
  (Ended /\ FailedSteps # {})
    => /\ Returned
       /\ escaped = ""
       /\ result.status = "error"

\* C8: every invocation produces exactly one result, and it is well formed:
\* success with an output and no error, or error with one code of the four,
\* a message and no output.
WellFormed(r) ==
  \/ /\ DOMAIN r = {"status", "output"}
     /\ r.status = "success"
  \/ /\ DOMAIN r = {"status", "error"}
     /\ r.status = "error"
     /\ DOMAIN r.error = {"code", "message"}
     /\ r.error.code \in ErrorCodes

C8_ExactlyOneWellFormedResult ==
  /\ calls.returns <= 1
  /\ Ended => (calls.returns = 1 /\ WellFormed(result))

\* C9: every invocation ends, and one that has armed its deadline returns a
\* result, even if the process never exits and ignores SIGTERM.
C9_AlwaysReturns ==
  /\ <>Ended
  /\ (pc = "await") ~> Returned

C9_Witness ==
  /\ Returned
  /\ graceExpired
  /\ signals = {"TERM", "KILL"}
  /\ proc = "running"

\* C10: a failing spawn returns INTERNAL_ERROR with the spawn failure's
\* detail at once: no await on completion, no terminate, no grace-period
\* wait, no kill.
C10_SpawnFailureIsInternalError ==
  "spawn" \in FailedSteps
    => /\ Returned
       /\ \E e \in SpawnErrors :
            /\ failed = {<<"spawn", e>>}
            /\ result = [status |-> "error",
                         error |-> [code |-> "INTERNAL_ERROR",
                                    message |-> [fmt |-> "{}", arg |-> e]]]
       /\ calls = [communicate |-> 0, terminate |-> 0, wait |-> 0, kill |-> 0, returns |-> 1]
       /\ deadlines = <<>>
       /\ signals = {}
       /\ proc = "none"

C10_Witness ==
  /\ Returned
  /\ <<"spawn", "PermissionError">> \in failed
  /\ HasCode(result, "INTERNAL_ERROR")

\* C11: a failure of the await or of the resolve step that is not the
\* deadline (communicate raising, a decode failing) yields INTERNAL_ERROR
\* with the failure's detail as message, and no other code nor success.
C11_OtherFailureIsInternalError ==
  \A f \in failed :
    f[1] \in {"communicate", "decode"}
      => /\ Returned
         /\ result = [status |-> "error",
                      error |-> [code |-> "INTERNAL_ERROR",
                                 message |-> [fmt |-> "{}", arg |-> f[2]]]]

C11_Witness ==
  /\ Returned
  /\ returncode = <<0>>
  /\ stdout = <<195>>
  /\ <<"decode", "UnicodeDecodeError">> \in failed
  /\ HasCode(result, "INTERNAL_ERROR")

\* C12: the deadline of the await is the caller's timeout when that is
\* positive and 300 seconds when none is supplied (None or the unresolved
\* Field wrapper); the grace period is always 5 seconds.
C12_EffectiveDeadline ==
  /\ Len(deadlines) <= 2
  /\ deadlines # <<>> =>
       /\ (timeout.tag = "int" /\ timeout.val > 0) => deadlines[1] = timeout.val
       /\ timeout.tag \in {"None", "FieldInfo"} => deadlines[1] = 300
  /\ Len(deadlines) = 2 => deadlines[2] = 5

C12_Witness ==
  /\ timeout.tag = "FieldInfo"
  /\ deadlines = <<300, 5>>

\* C16: SIGTERM is sent only after the deadline has fired, exactly once, and
\* is followed by exactly one grace-period wait; SIGKILL is sent only after
\* that wait has timed out with the process still without an exit status.
C16_SignalOrder ==
  [][ /\ calls'.terminate # calls.terminate =>
           /\ deadlineFired
           /\ calls.terminate = 0
           /\ "TERM" \in signals' => (calls.wait = 0 /\ calls'.wait = 1)
      /\ calls'.wait # calls.wait => "TERM" \in signals'
      /\ calls'.kill # calls.kill =>
           /\ "TERM" \in signals
           /\ calls.wait = 1
           /\ calls.kill = 0
           /\ graceExpired'
           /\ returncode = <<>> ]_vars

\* C17: if communicate() completes first the result is never TIMEOUT nor
\* TERMINATION_ERROR and no terminate or kill is issued; if the deadline
\* fires first the result is never success nor COMMAND_ERROR, even when the
\* process exits with status 0 during the grace period.
C17_RaceDecidesThePath ==
  /\ Completed =>
       /\ ~HasCode(result, "TIMEOUT")
       /\ ~HasCode(result, "TERMINATION_ERROR")
       /\ signals = {}
       /\ calls.terminate = 0 /\ calls.wait = 0 /\ calls.kill = 0
  /\ (Returned /\ deadlineFired) =>
       /\ result.status = "error"
       /\ result.error.code \in {"TIMEOUT", "TERMINATION_ERROR"}

C17_Witness ==
  /\ Returned
  /\ deadlineFired
  /\ returncode = <<0>>
  /\ HasCode(result, "TIMEOUT")

\* C18: when terminate raises, or the grace-period wait raises something
\* other than its timeout, the result is TERMINATION_ERROR and no kill is
\* issued (so the process may still be running when the call returns).
C18_NoKillAfterTerminationFailure ==
  (FailedSteps \cap {"terminate", "wait"} # {})
    => /\ Returned
       /\ HasCode(result, "TERMINATION_ERROR")
       /\ calls.kill = 0
       /\ "KILL" \notin signals

C18_Witness ==
  /\ Returned
  /\ "wait" \in FailedSteps
  /\ HasCode(result, "TERMINATION_ERROR")
  /\ proc = "running"

\* C20: the command line handed to the shell starts with "helmfile" once
\* leading whitespace is ignored: a command that does not is prefixed with
\* "helmfile ", one that does is passed through unchanged, and prefixing
\* twice gives what prefixing once gives.
LeadsWithHelmfile(c) ==
  \E k \in 1..Len(c) :
    /\ c[k] = "helmfile"
    /\ \A j \in 1..(k - 1) : c[j] \in Whitespace

C20_ShellCommandStartsWithHelmfile ==
  [][ /\ pc = "start" =>
           /\ LeadsWithHelmfile(command) => command' = command
           /\ ~LeadsWithHelmfile(command) => command' = <<"helmfile", " ">> \o command
           /\ PrefixCommand(command') = command'
      /\ shell' # shell =>
           /\ shell' = Append(shell, command)
           /\ LeadsWithHelmfile(command) ]_vars

C20_Witness ==
  shell = << <<" ", "helmfile", " ", "list">> >>

\* C13: sync_helmfile builds "helmfile sync -f <path>", followed by
\* " -n <namespace without surrounding whitespace>" exactly when a namespace
\* is supplied that is not empty after trimming; it hands that command and
\* the same timeout to execute_helmfile and returns its result unchanged.
HasNamespace(n) ==
  /\ n.tag = "str"
  /\ \E i \in 1..Len(n.val) : n.val[i] \notin Whitespace

C13_SyncCommand ==
  /\ sync.pc # "build" =>
       /\ ~HasNamespace(sync.namespace) =>
            sync.command = <<"helmfile", " ", "sync", " ", "-f", " ", sync.helmfile_path>>
       /\ HasNamespace(sync.namespace) =>
            \E i \in 1..Len(sync.namespace.val), j \in 1..Len(sync.namespace.val) :
              /\ StrippedOf(SubSeq(sync.namespace.val, i, j), sync.namespace.val)
              /\ sync.command =
                   <<"helmfile", " ", "sync", " ", "-f", " ", sync.helmfile_path,
                     " ", "-n", " ">> \o SubSeq(sync.namespace.val, i, j)
       /\ timeout = (IF sync.timeout.tag = "int" THEN sync.timeout ELSE [tag |-> "None"])
       /\ pc = "start" => command = sync.command
       /\ shell # <<>> => shell = <<sync.command>>
  /\ sync.pc = "done" => (Returned /\ sync.result = result)

C13_Witness ==
  /\ sync.pc = "done"
  /\ sync.namespace = [tag |-> "str", val |-> <<" ", "ns1", " ">>]
  /\ shell = << <<"helmfile", " ", "sync", " ", "-f", " ", "/tmp/x.yaml",
                  " ", "-n", " ", "ns1">> >>
  /\ sync.result = [status |-> "success", output |-> <<"a">>]

\* vocabulary of the claims about two invocations
BothReturned(i, j) == i # j /\ frames[i].pc = "done" /\ frames[j].pc = "done"

LastSeen(i) == frames[i].beh[Len(frames[i].beh)]

\* what invocation i returns when it runs alone and observes what it observed
AloneResult(i) ==
  LET e == LastSeen(i)
      TerminationFailure(d) == Error("TERMINATION_ERROR", TerminationMessage(d))
      TimedOut == Error("TIMEOUT", TimedOutMessage(ActualTimeout(frames[i].timeout)))
  IN  CASE e.step = "spawn" -> Error("INTERNAL_ERROR", ExceptionMessage(e.detail))
        [] e.step = "communicate" /\ e.detail = "returns" ->
             Resolve(<<e.code>>, frames[i].stdout, frames[i].stderr)
        [] e.step = "communicate" /\ e.detail = "raises" ->
             Error("INTERNAL_ERROR", ExceptionMessage("communicate failure"))
        [] e.step = "terminate" /\ e.detail = "raises" -> TerminationFailure("terminate failure")
        [] e.step = "terminate" /\ e.detail = "await raises" -> TerminationFailure(AwaitNoneError)
        [] e.step = "wait" /\ e.detail = "raises" -> TerminationFailure("wait failure")
        [] e.step = "wait" /\ e.detail = "timeout, kill raises" -> TerminationFailure("kill failure")
        [] e.step = "wait" /\ e.detail = "timeout, await kill raises" ->
             TerminationFailure(AwaitNoneError)
        [] OTHER -> TimedOut

\* C14: concurrent invocations are independent: each owns its own process
\* handle, a signal sent by an invocation reaches only the process that
\* invocation spawned, and each result is the one the invocation produces
\* alone against the same behaviour of its process.
C14_InvocationsAreIndependent ==
  /\ \A i \in Invs, j \in Invs :
       (i # j /\ frames[i].process # 0) => frames[i].process # frames[j].process
  /\ \A p \in Pids : \A sg \in os[p].signals : frames[sg[2]].process = p
  /\ \A i \in Invs : frames[i].pc = "done" => frames[i].result = AloneResult(i)

C14_Witness ==
  /\ BothReturned(1, 2)
  /\ frames[1].process = 2
  /\ frames[2].process = 1
  /\ os[2].signals = {<<"TERM", 1>>, <<"KILL", 1>>}
  /\ os[1].signals = {}
  /\ HasCode(frames[1].result, "TIMEOUT")
  /\ frames[2].result = [status |-> "success", output |-> <<"a">>]

\* C15: two calls with the same command and timeout whose processes behave
\* identically (same outcome of the race, same exit status, same failures)
\* return the same status and the same error code.
C15_SameBehaviourSameStatus ==
  \A i \in Invs, j \in Invs :
    (/\ BothReturned(i, j)
     /\ frames[i].given = frames[j].given
     /\ frames[i].timeout = frames[j].timeout
     /\ frames[i].beh = frames[j].beh)
      => /\ frames[i].result.status = frames[j].result.status
         /\ frames[i].result.status = "error" =>
              frames[i].result.error.code = frames[j].result.error.code

C15_Witness ==
  /\ BothReturned(1, 2)
  /\ frames[1].given = frames[2].given
  /\ frames[1].beh = frames[2].beh
  /\ LastSeen(1).step = "communicate" /\ LastSeen(1).detail = "returns"
  /\ frames[1].stdout = <<>> /\ frames[2].stdout = <<97>>
  /\ frames[1].result.status = "success" /\ frames[2].result.status = "success"

\* vocabulary of C19
InfoCalls(i) == Len(SelectSeq(frames[i].beh, LAMBDA e : e.step = "info"))

PastNotify(i) == frames[i].pc \notin {"start", "notify"}

Piped(c) == \E k \in 1..Len(c) : c[k] = "|"

Adjacent(words, a, b) ==
  \E k \in 1..(Len(words) - 1) : words[k] = a /\ words[k + 1] = b

\* everything but the context and its notification is the same
SameButContext(i, j) ==
  /\ BothReturned(i, j)
  /\ frames[i].given = frames[j].given
  /\ frames[i].timeout = frames[j].timeout
  /\ frames[i].stdout = frames[j].stdout
  /\ frames[i].stderr = frames[j].stderr
  /\ SelectSeq(frames[i].beh, LAMBDA e : e.step # "info")
       = SelectSeq(frames[j].beh, LAMBDA e : e.step # "info")

\* what C19 says of the number and the place of the notification and of the
\* result, whatever the words of the message
InfoOnceBeforeSpawn(i) ==
  /\ (frames[i].ctx # "None" /\ PastNotify(i)) =>
       /\ InfoCalls(i) = 1
       /\ Len(frames[i].sent) = 1
       /\ frames[i].beh[1].step = "info"
  /\ frames[i].ctx = "None" => (InfoCalls(i) = 0 /\ frames[i].sent = <<>>)
  /\ \A j \in Invs : SameButContext(i, j) => frames[i].result = frames[j].result

\* C19 as stated: with a context exactly one info message is sent, before
\* the spawn, and for every command, piped or not, it contains the text
\* "Executing Helmfile command"; without a context none is sent; the result
\* is the same in both cases.
C19_InfoSaysExecutingHelmfileCommand ==
  \A i \in Invs :
    /\ InfoOnceBeforeSpawn(i)
    /\ (frames[i].ctx # "None" /\ PastNotify(i)) =>
         Adjacent(frames[i].sent[1].words, "Executing", " Helmfile command")

\* C19 amended: the message contains "Executing Helmfile command" for a
\* command without a pipe and reads "Executing piped Helmfile command" for
\* a command with a pipe.
C19_InfoNamesPipedCommands ==
  \A i \in Invs :
    /\ InfoOnceBeforeSpawn(i)
    /\ (frames[i].ctx # "None" /\ PastNotify(i)) =>
         IF Piped(frames[i].given)
         THEN frames[i].sent[1].words = <<"Executing", " piped", " Helmfile command">>
         ELSE Adjacent(frames[i].sent[1].words, "Executing", " Helmfile command")

C19_Witness ==
  /\ SameButContext(1, 2)
  /\ frames[1].ctx = "ok"
  /\ frames[2].ctx = "None"
  /\ Piped(frames[1].given)
  /\ frames[1].sent = << [words |-> <<"Executing", " piped", " Helmfile command">>,
                          timeout |-> 1] >>
  /\ frames[1].beh[2].step = "spawn"
  /\ frames[1].result = frames[2].result
  /\ frames[1].result.status = "success"

====
